---- MODULE Spec2Model ----
(***************************************************************************)
(* A model of the travel-assistant agent: the two chat loops               *)
(* (src/app.js startChatInterface, src/rag.ts startChatInterface) and the  *)
(* flight-search tool function (src/app.js searchFlights).                 *)
(*                                                                         *)
(* A JavaScript string is a sequence of pieces (single characters where    *)
(* the code looks at characters), concatenation is \o and the empty string *)
(* is <<>>, so that toLowerCase, typeof, truthiness and template strings   *)
(* are computed and not assumed.                                           *)
(***************************************************************************)
EXTENDS Integers, Sequences, FiniteSets, TLC

(***************************************************************************)
(* Bounds of the model.                                                    *)
(***************************************************************************)
\* Non-exit user turns in one session.
MaxTurns == 3
\* Reason/act cycles the agent runtime allows per invocation (the library
\* default, AgentExecutor maxIterations / LangGraph recursionLimit, scaled
\* down: neither file sets it).
MaxIterations == 2

VARIABLES
    variant,          \* "app" (src/app.js) or "rag" (src/rag.ts)
    pc,               \* "ask" | "invoking" | "settled" | "closed"
    history,          \* let history = []
    query,            \* the line handed to the rl.question callback
    questionPending,  \* an rl.question callback is registered (prompt issued)
    inflight,         \* agent invocations awaiting settlement
    iter,             \* reason/act cycles of the invocation in flight
    scratch,          \* tool steps of the invocation in flight
    agentInput,       \* the messages handed to invoke
    settled,          \* how invoke settled: a returned result or a throw
    console,          \* what this turn has printed
    outcome,          \* how the last turn ended
    turns,            \* non-exit turns begun
    histBefore,       \* history when the current line arrived
    called,           \* invoke was called for the current line
    exhausted,        \* the invocation ran out of cycles
    collections,      \* names of the collections the vector database holds
    exists,           \* const exists: "unset" until computed, then "yes" | "no"
    indexed,          \* the document was indexed by this run
    answeredSince,    \* turns answered since the last fatal failure
    toolPc,           \* searchFlights: "idle" | "entered" | "awaiting" | "done"
    args,             \* searchFlights' argument
    DEBUG,            \* const DEBUG
    remoteCalls,      \* calls of getJson made
    params,           \* the params handed to getJson
    remote,           \* how getJson settled
    observation,      \* what searchFlights resolved to
    toolLog,          \* what searchFlights printed
    appHistory,       \* app.js and rag.ts side by side: app.js's history
    ragHistory,       \* rag.ts's history
    pairPc,           \* "idle" | "ask" | "invoking" | "closed"
    pairQuery,        \* the line both callbacks were handed
    pairOutcome,      \* how the last turn ended, in both
    pairTurns         \* non-exit turns begun

chatVars == <<variant, pc, history, query, questionPending, inflight, iter,
              scratch, agentInput, settled, console, outcome, turns,
              histBefore, called, exhausted, collections, exists, indexed,
              answeredSince>>
mainVars == <<collections, exists, indexed>>
toolVars == <<toolPc, args, DEBUG, remoteCalls, params, remote, observation,
              toolLog>>
pairVars == <<appHistory, ragHistory, pairPc, pairQuery, pairOutcome,
              pairTurns>>
vars == <<chatVars, toolVars, pairVars>>

(***************************************************************************)
(* JavaScript values.                                                      *)
(***************************************************************************)
Str(s) == [t |-> "string", s |-> s, n |-> 0]
Num(n) == [t |-> "number", s |-> <<>>, n |-> n]
Undefined == [t |-> "undefined", s |-> <<>>, n |-> 0]
Null == [t |-> "null", s |-> <<>>, n |-> 0]
NaN == [t |-> "NaN", s |-> <<>>, n |-> 0]
\* A non-string object, e.g. a list of content parts as model output.
Obj == [t |-> "object", s |-> <<>>, n |-> 0]

\* JavaScript truthiness of a value
Truthy(v) ==
    CASE v.t = "string" -> v.s # <<>>
      [] v.t = "number" -> v.n # 0
      [] v.t = "object" -> TRUE
      [] OTHER -> FALSE

\* typeof v === "string"
TypeOfIsString(v) == v.t = "string"

ToLowerChar(c) ==
    CASE c = "E" -> "e"
      [] c = "X" -> "x"
      [] c = "I" -> "i"
      [] c = "T" -> "t"
      [] c = "H" -> "h"
      [] OTHER -> c

\* String.prototype.toLowerCase
toLowerCase(s) == [i \in 1..Len(s) |-> ToLowerChar(s[i])]

ExitWord == <<"e", "x", "i", "t">>

\* Lines the user may type.
ExitLines == {<<"e", "x", "i", "t">>, <<"E", "X", "I", "T">>, <<"E", "x", "i", "T">>}
Queries == {<<"h", "i">>, <<"e", "x", "i", "t", "s">>}
Lines == ExitLines \cup Queries

\* Final answers of the model.
Answers == {<<"a">>, <<"b">>}
\* AgentExecutor's answer when it stops on its iteration bound.
StoppedMsg == <<"s", "t", "o", "p">>

ToolNames == {"google_flights_search", "search_poradnik_document"}

HumanMessage(content) == [role |-> "human", content |-> content]
AIMessage(content) == [role |-> "ai", content |-> content]
ToolMessage(name) == [role |-> "tool", content |-> <<name>>]

Last(s) == s[Len(s)]
\* Array.prototype.pop, as the array it leaves
Pop(s) == IF Len(s) = 0 THEN s ELSE SubSeq(s, 1, Len(s) - 1)

(***************************************************************************)
(* The agent runtime's result: what `await invoke(...)` hands back.        *)
(* result.output is read by app.js, result.messages by rag.ts.             *)
(***************************************************************************)
\* AgentExecutor.invoke resolves to an object with an `output`.
AppResult(output) ==
    [nullish |-> FALSE, output |-> output, isArray |-> FALSE, messages |-> <<>>]
\* The compiled graph resolves to a state with `messages`.
RagResult(messages) ==
    [nullish |-> FALSE, output |-> Undefined, isArray |-> TRUE, messages |-> messages]
\* A state whose `messages` is missing or not an array.
RagNoMessages ==
    [nullish |-> FALSE, output |-> Undefined, isArray |-> FALSE, messages |-> <<>>]
\* null / undefined in place of a result
NullResult ==
    [nullish |-> TRUE, output |-> Undefined, isArray |-> FALSE, messages |-> <<>>]

Returned(result) == [kind |-> "return", result |-> result]
Thrown == [kind |-> "throw", result |-> NullResult]
NotSettled == [kind |-> "none", result |-> NullResult]

Log(tag) == [tag |-> tag, text |-> <<>>]
LogText(tag, text) == [tag |-> tag, text |-> text]

(***************************************************************************)
(* startChatInterface.ask: the rl.question callback.                       *)
(***************************************************************************)
\* Mutant: the comparison without toLowerCase.
IsExitExact(q) == q = ExitWord

\* query.toLowerCase() === 'exit'
IsExit(q) == toLowerCase(q) = ExitWord

\* Mutant: rag.ts hands the user's turn to invoke without recording it.
StartTurnNoPush(v, h, q) ==
    IF v = "rag"
    THEN [history |-> h,
          agentInput |-> [input |-> <<>>,
                          messages |-> Append(h, HumanMessage(q))],
          questionPending |-> FALSE,
          console |-> <<Log("processing")>>]
    ELSE [history |-> h,
          agentInput |-> [input |-> q, messages |-> h],
          questionPending |-> FALSE,
          console |-> <<Log("processing")>>]

\* Mutant: ask() is called without awaiting the invocation.
StartTurnAskFirst(v, h, q) ==
    IF v = "rag"
    THEN LET h1 == Append(h, HumanMessage(q))
         IN  [history |-> h1,
              agentInput |-> [input |-> <<>>, messages |-> h1],
              questionPending |-> TRUE,
              console |-> <<Log("processing")>>]
    ELSE [history |-> h,
          agentInput |-> [input |-> q, messages |-> h],
          questionPending |-> TRUE,
          console |-> <<Log("processing")>>]

\* Mutant: rag.ts invokes the agent before pushing the user's message.
StartTurnInvokeFirst(v, h, q) ==
    IF v = "rag"
    THEN [history |-> Append(h, HumanMessage(q)),
          agentInput |-> [input |-> <<>>, messages |-> h],
          questionPending |-> FALSE,
          console |-> <<Log("processing")>>]
    ELSE [history |-> h,
          agentInput |-> [input |-> q, messages |-> h],
          questionPending |-> FALSE,
          console |-> <<Log("processing")>>]

\* The callback up to `await ....invoke(...)`: rag.ts pushes the user's
\* message first and hands the whole history over; app.js hands the query
\* and the untouched history. No ask() is made before the await.
StartTurn(v, h, q) ==
    IF v = "rag"
    THEN LET h1 == Append(h, HumanMessage(q))
         IN  [history |-> h1,
              agentInput |-> [input |-> <<>>, messages |-> h1],
              questionPending |-> FALSE,
              console |-> <<Log("processing")>>]
    ELSE [history |-> h,
          agentInput |-> [input |-> q, messages |-> h],
          questionPending |-> FALSE,
          console |-> <<Log("processing")>>]

\* Mutant: the catch block reports the error and keeps the history.
CatchFatalKeep(h, out) ==
    [history |-> h,
     console |-> out \o <<Log("fatal"), Log("cleared")>>,
     outcome |-> "fatal"]

\* catch (error) { ...; history = []; ... }
CatchFatal(h, out) ==
    [history |-> <<>>,
     console |-> out \o <<Log("fatal"), Log("cleared")>>,
     outcome |-> "fatal"]

\* Mutant: the success path records the answer without the user's turn.
AppResumeAnswerOnly(h, q, out, st) ==
    IF st.kind = "throw" THEN [history |-> <<>>,
                               console |-> out \o <<Log("fatal"), Log("cleared")>>,
                               outcome |-> "fatal"]
    ELSE LET finalAnswer == st.result.output IN
         IF TypeOfIsString(finalAnswer)
         THEN [history |-> h \o <<AIMessage(finalAnswer.s)>>,
               console |-> out \o <<LogText("answer", finalAnswer.s)>>,
               outcome |-> "answered"]
         ELSE [history |-> h,
               console |-> out \o <<Log("invalid"), Log("state")>>,
               outcome |-> "failed"]

\* Mutant: the failure path prints nothing.
AppResumeSilent(h, q, out, st) ==
    IF st.kind = "throw" THEN [history |-> <<>>,
                               console |-> out \o <<Log("fatal"), Log("cleared")>>,
                               outcome |-> "fatal"]
    ELSE LET finalAnswer == st.result.output IN
         IF TypeOfIsString(finalAnswer)
         THEN [history |-> h \o <<HumanMessage(q), AIMessage(finalAnswer.s)>>,
               console |-> out \o <<LogText("answer", finalAnswer.s)>>,
               outcome |-> "answered"]
         ELSE [history |-> h,
               console |-> out,
               outcome |-> "failed"]

\* app.js: the rest of the callback once invoke has settled, up to ask().
AppResume(h, q, out, st) ==
    IF st.kind = "throw" THEN CatchFatal(h, out)
    ELSE IF st.result.nullish THEN CatchFatal(h, out)  \* result.output: TypeError
    ELSE LET finalAnswer == st.result.output IN
         IF TypeOfIsString(finalAnswer)
         THEN [history |-> h \o <<HumanMessage(q), AIMessage(finalAnswer.s)>>,
               console |-> out \o <<LogText("answer", finalAnswer.s)>>,
               outcome |-> "answered"]
         ELSE [history |-> h,
               console |-> out \o <<Log("invalid"), Log("state")>>,
               outcome |-> "failed"]

\* rag.ts: messages[messages.length - 1] or null
RagFinalAnswer(result) ==
    IF ~result.nullish /\ result.isArray /\ Len(result.messages) > 0
    THEN Last(result.messages)
    ELSE [role |-> "null", content |-> <<>>]

\* finalAnswer instanceof AIMessage
InstanceOfAIMessage(m) == m.role = "ai"

\* Mutant: the failure path forgets history.pop().
RagResumeNoPop(h, q, out, st) ==
    IF st.kind = "throw" THEN [history |-> <<>>,
                               console |-> out \o <<Log("fatal"), Log("cleared")>>,
                               outcome |-> "fatal"]
    ELSE LET finalAnswer == IF ~st.result.nullish /\ st.result.isArray
                                  /\ Len(st.result.messages) > 0
                            THEN Last(st.result.messages)
                            ELSE [role |-> "null", content |-> <<>>] IN
         IF finalAnswer.role = "ai"
         THEN [history |-> Append(h, finalAnswer),
               console |-> out \o <<LogText("answer", finalAnswer.content)>>,
               outcome |-> "answered"]
         ELSE [history |-> h,
               console |-> out \o <<Log("invalid"), Log("state"), Log("removed")>>,
               outcome |-> "failed"]

\* Mutant: the failure path pops twice.
RagResumePopTwice(h, q, out, st) ==
    IF st.kind = "throw" THEN [history |-> <<>>,
                               console |-> out \o <<Log("fatal"), Log("cleared")>>,
                               outcome |-> "fatal"]
    ELSE LET finalAnswer == IF ~st.result.nullish /\ st.result.isArray
                                  /\ Len(st.result.messages) > 0
                            THEN Last(st.result.messages)
                            ELSE [role |-> "null", content |-> <<>>] IN
         IF finalAnswer.role = "ai"
         THEN [history |-> Append(h, finalAnswer),
               console |-> out \o <<LogText("answer", finalAnswer.content)>>,
               outcome |-> "answered"]
         ELSE [history |-> Pop(Pop(h)),
               console |-> out \o <<Log("invalid"), Log("state"), Log("removed")>>,
               outcome |-> "failed"]

\* rag.ts: the rest of the callback once invoke has settled, up to ask().
RagResume(h, q, out, st) ==
    IF st.kind = "throw" THEN CatchFatal(h, out)
    ELSE LET finalAnswer == RagFinalAnswer(st.result) IN
         IF InstanceOfAIMessage(finalAnswer)
         THEN [history |-> Append(h, finalAnswer),
               console |-> out \o <<LogText("answer", finalAnswer.content)>>,
               outcome |-> "answered"]
         ELSE [history |-> Pop(h),
               console |-> out \o <<Log("invalid"), Log("state"), Log("removed")>>,
               outcome |-> "failed"]

Resume(v, h, q, out, st) ==
    IF v = "rag" THEN RagResume(h, q, out, st) ELSE AppResume(h, q, out, st)

(***************************************************************************)
(* The agent runtime between invoke and its settlement.                    *)
(***************************************************************************)
\* One tool step as the graph records it: the request, then the result.
StepMessages(name) == <<[role |-> "ai", content |-> <<>>], ToolMessage(name)>>

RECURSIVE ScratchMessages(_)
ScratchMessages(steps) ==
    IF steps = <<>> THEN <<>>
    ELSE StepMessages(Head(steps)) \o ScratchMessages(Tail(steps))

\* The messages a reasoning call of the invocation starts from: rag.ts hands
\* over `messages`; app.js's prompt places chat_history, then the human
\* {input} (the agent_scratchpad follows).
PromptMessages(v, input) ==
    IF v = "rag"
    THEN input.messages
    ELSE input.messages \o <<HumanMessage(input.input)>>

\* What invoke resolves to when the model gives a final answer `a`.
FinalResult(v, input, steps, a) ==
    IF v = "rag"
    THEN RagResult(input.messages \o ScratchMessages(steps) \o <<AIMessage(a)>>)
    ELSE AppResult(Str(a))

\* Results without a usable final answer.
UnusableResults(v, input, steps) ==
    IF v = "rag"
    THEN {NullResult, RagNoMessages, RagResult(<<>>),
          RagResult(input.messages \o ScratchMessages(steps))}
    ELSE {AppResult(Undefined), AppResult(Obj)}

\* Out of cycles: AgentExecutor stops with its fixed answer, the graph throws.
ExhaustedSettlement(v) ==
    IF v = "rag" THEN Thrown ELSE Returned(AppResult(Str(StoppedMsg)))

(***************************************************************************)
(* searchFlights (src/app.js): argument values and the upstream response.  *)
(***************************************************************************)
\* slice(0, 5)
SliceEnd == 5
\* Offers one upstream list may carry.
MaxOffers == 6

\* z.object({...}): every field a string, return_date optional.
FlightSearchSchema ==
    [departure_city_or_airport |-> [type |-> "string", optional |-> FALSE],
     arrival_city_or_airport |-> [type |-> "string", optional |-> FALSE],
     departure_date |-> [type |-> "string", optional |-> FALSE],
     return_date |-> [type |-> "string", optional |-> TRUE]]

\* What a field may hold when the function is entered: a string of the
\* schema's type (possibly empty), or nothing at all.
FieldValues(f) ==
    {Undefined, Null, Str(<<>>)} \cup
    (CASE f = "departure_city_or_airport" -> {Str(<<"WRO">>)}
       [] f = "arrival_city_or_airport" -> {Str(<<"WAW">>)}
       [] f = "departure_date" -> {Str(<<"2025-06-01">>), Str(<<"friday">>)}
       [] OTHER -> {Str(<<"2025-06-08">>)})

ArgObjects ==
    [departure_city_or_airport : FieldValues("departure_city_or_airport"),
     arrival_city_or_airport : FieldValues("arrival_city_or_airport"),
     departure_date : FieldValues("departure_date"),
     return_date : {Undefined, Str(<<"2025-06-08">>)},
     nullish : {FALSE}]

\* searchFlights(undefined) / searchFlights(null)
NoArgs ==
    [departure_city_or_airport |-> Undefined,
     arrival_city_or_airport |-> Undefined,
     departure_date |-> Undefined,
     return_date |-> Undefined,
     nullish |-> TRUE]

\* const {...} = args || {}
Destructure(a) ==
    IF a.nullish
    THEN [departure_city_or_airport |-> Undefined,
          arrival_city_or_airport |-> Undefined,
          departure_date |-> Undefined,
          return_date |-> Undefined]
    ELSE [departure_city_or_airport |-> a.departure_city_or_airport,
          arrival_city_or_airport |-> a.arrival_city_or_airport,
          departure_date |-> a.departure_date,
          return_date |-> a.return_date]

\* Mutant: the guard also demands the return date.
RequiredMissingOrReturn(d) ==
    \/ ~Truthy(d.departure_city_or_airport)
    \/ ~Truthy(d.arrival_city_or_airport)
    \/ ~Truthy(d.departure_date)
    \/ ~Truthy(d.return_date)

\* !departure_city_or_airport || !arrival_city_or_airport || !departure_date
RequiredMissing(d) ==
    \/ ~Truthy(d.departure_city_or_airport)
    \/ ~Truthy(d.arrival_city_or_airport)
    \/ ~Truthy(d.departure_date)

InvalidArgsMsg ==
    <<"Error: Tool failed. The user's query was missing a required argument (departure, arrival, or date). Ask the user to provide all three.">>
NoFlightsMsg == <<"No flights found matching criteria.">>
ApiErrorPrefix == <<"API Error: ">>
SearchErrorPrefix == <<"Error during flight search: ">>
UnknownErrorPrefix == <<"An unknown error occurred during flight search: ">>
TypeErrorMsg == <<"Cannot read properties of undefined">>

\* const params = {...}
MakeParams(d) ==
    [engine |-> "google_flights",
     departure_id |-> d.departure_city_or_airport,
     arrival_id |-> d.arrival_city_or_airport,
     outbound_date |-> d.departure_date,
     return_date |-> d.return_date,
     hl |-> "en",
     gl |-> "us"]
NoParams ==
    [engine |-> "", departure_id |-> Undefined, arrival_id |-> Undefined,
     outbound_date |-> Undefined, return_date |-> Undefined, hl |-> "",
     gl |-> ""]

(***************************************************************************)
(* Upstream offers. A leg is a plain object: it has no `length`.           *)
(***************************************************************************)
Airport(time) == [present |-> TRUE, time |-> time]
NoAirport == [present |-> FALSE, time |-> Undefined]

Leg(i, class, airports) ==
    [airline |-> Str(<<"LO">>),
     departure_airport |-> IF airports THEN Airport(Num(i)) ELSE NoAirport,
     arrival_airport |-> IF airports THEN Airport(Num(i + 1)) ELSE NoAirport,
     travel_class |-> class,
     length |-> Undefined]

\* Offer number i of the response, in one of the shapes upstream sends.
Offer(i, shape) ==
    [price |-> IF shape = "noprice" THEN Undefined ELSE Num(100 + i),
     flights |->
        CASE shape = "noflights" -> [present |-> FALSE, legs |-> <<>>]
          [] shape = "emptyflights" -> [present |-> TRUE, legs |-> <<>>]
          [] shape = "noairport" ->
                [present |-> TRUE, legs |-> <<Leg(i, Undefined, FALSE)>>]
          [] shape = "classed" ->
                [present |-> TRUE,
                 legs |-> <<Leg(i, Str(<<"Economy">>), TRUE), Leg(i + 1, Str(<<"Economy">>), TRUE)>>]
          [] OTHER -> [present |-> TRUE, legs |-> <<Leg(i, Undefined, TRUE)>>],
     total_duration |-> Num(60 + i),
     type |-> Str(<<"One way">>)]

BaseShapes == {"plain", "classed"}
OddShapes == {"noflights", "emptyflights", "noairport", "noprice"}

\* A list of n offers numbered from `first`, all of shape `base` but for
\* the one at `odd` (0: none), which has shape `oddShape`.
OfferList(n, first, base, odd, oddShape) ==
    [present |-> TRUE,
     list |-> [i \in 1..n |->
                 Offer(first + i - 1, IF i = odd THEN oddShape ELSE base)]]
NoList == [present |-> FALSE, list |-> <<>>]

OfferLists(first) ==
    {NoList} \cup
    {OfferList(n, first, base, 0, "plain") :
        n \in 0..MaxOffers, base \in BaseShapes} \cup
    {OfferList(n, first, "plain", odd, oddShape) :
        n \in 1..MaxOffers, odd \in {1, MaxOffers}, oddShape \in OddShapes}

\* What getJson resolves to.
Responses ==
    [nullish : {FALSE},
     best_flights : OfferLists(1),
     other_flights : OfferLists(11),
     error : {Undefined, Str(<<"Invalid API key.">>)}]
NullResponse ==
    [nullish |-> TRUE, best_flights |-> NoList, other_flights |-> NoList,
     error |-> Undefined]

\* How getJson settles: resolved with a response, or rejected with an
\* Error or with a value that is no Error (the response body as a string).
Resolved(json) == [kind |-> "json", json |-> json, e |-> Undefined, isError |-> FALSE]
RejectedError(m) == [kind |-> "throw", json |-> NullResponse, e |-> Str(m), isError |-> TRUE]
RejectedValue(v) == [kind |-> "throw", json |-> NullResponse, e |-> v, isError |-> FALSE]
NotCalled == [kind |-> "none", json |-> NullResponse, e |-> Undefined, isError |-> FALSE]

Settlements ==
    {Resolved(j) : j \in Responses \cup {NullResponse}} \cup
    {RejectedError(m) : m \in {<<"ETIMEDOUT">>, <<>>}} \cup
    {RejectedValue(v) : v \in {Str(<<"Unauthorized">>), Undefined, Obj}}

(***************************************************************************)
(* searchFlights: the body.                                                *)
(***************************************************************************)
Min(a, b) == IF a < b THEN a ELSE b

\* list.slice(0, 5)
Slice(list) == SubSeq(list, 1, Min(SliceEnd, Len(list)))

\* v - k in JavaScript arithmetic
Minus(v, k) == IF v.t = "number" THEN Num(v.n - k) ELSE NaN

\* Reading flight.flights[0].airline, .departure_airport.time or
\* .arrival_airport.time throws a TypeError.
ProjectThrows(flight) ==
    \/ ~flight.flights.present
    \/ Len(flight.flights.legs) = 0
    \/ ~flight.flights.legs[1].departure_airport.present
    \/ ~flight.flights.legs[1].arrival_airport.present

\* flight => ({ price: ..., ..., type: flight.type })
Project(flight) ==
    LET leg == flight.flights.legs[1] IN
    [price |-> flight.price,
     airline |-> leg.airline,
     departure |-> leg.departure_airport.time,
     arrival |-> leg.arrival_airport.time,
     duration_in_minutes |-> flight.total_duration,
     stops |-> IF Truthy(leg.travel_class) THEN Minus(leg.length, 1) ELSE leg.length,
     type |-> flight.type]

\* JSON.stringify of one property value: undefined drops the key, NaN is null.
Omitted == [t |-> "omitted", s |-> <<>>, n |-> 0]
JsonValue(v) ==
    CASE v.t = "undefined" -> Omitted
      [] v.t = "NaN" -> Null
      [] OTHER -> v

EntryKeys == {"price", "airline", "departure", "arrival",
              "duration_in_minutes", "stops", "type"}

\* JSON.stringify(resultsToReturn), as the entries the text holds
JsonStringify(results) ==
    [i \in 1..Len(results) |-> [k \in EntryKeys |-> JsonValue(results[i][k])]]

\* JSON.stringify(e) inside a template string
JsonStringifyValue(v) ==
    CASE v.t = "string" -> <<"\"">> \o v.s \o <<"\"">>
      [] v.t = "object" -> <<"{}">>
      [] v.t = "number" -> <<"number">>
      [] v.t = "null" -> <<"null">>
      [] OTHER -> <<"undefined">>

TextObservation(text) == [kind |-> "text", text |-> text, entries |-> <<>>]
JsonObservation(entries) == [kind |-> "json", text |-> <<>>, entries |-> entries]
\* The promise rejects: an exception leaves searchFlights.
Rejection == [kind |-> "rejected", text |-> <<>>, entries |-> <<>>]
NoObservation == [kind |-> "none", text |-> <<>>, entries |-> <<>>]

Completed(obs) == [threw |-> FALSE, e |-> Undefined, isError |-> FALSE, value |-> obs]
ThrewTypeError ==
    [threw |-> TRUE, e |-> Str(TypeErrorMsg), isError |-> TRUE, value |-> NoObservation]

\* list.slice(0, 5).map(flight => ...), then JSON.stringify
PruneAndProject(list) ==
    LET top == Slice(list) IN
    IF \E i \in 1..Len(top) : ProjectThrows(top[i])
    THEN ThrewTypeError
    ELSE Completed(JsonObservation(
             JsonStringify([i \in 1..Len(top) |-> Project(top[i])])))

\* The try block after `await getJson(params)` has resolved to json.
TryBody(json) ==
    IF json.nullish THEN ThrewTypeError
    ELSE IF json.best_flights.present THEN PruneAndProject(json.best_flights.list)
    ELSE IF json.other_flights.present THEN PruneAndProject(json.other_flights.list)
    ELSE IF Truthy(json.error)
         THEN Completed(TextObservation(ApiErrorPrefix \o json.error.s))
    ELSE Completed(TextObservation(NoFlightsMsg))

\* Mutant: a thrown value that is no Error is thrown on.
CatchBlockRethrow(e, isError) ==
    IF isError
    THEN [kind |-> "text", text |-> SearchErrorPrefix \o e.s, entries |-> <<>>]
    ELSE [kind |-> "rejected", text |-> <<>>, entries |-> <<>>]

\* catch (e) { ... }
CatchBlock(e, isError) ==
    IF isError
    THEN TextObservation(SearchErrorPrefix \o e.s)
    ELSE TextObservation(UnknownErrorPrefix \o JsonStringifyValue(e))

\* try { const json = await getJson(params); ... } catch (e) { ... }
AfterGetJson(st) ==
    LET r == IF st.kind = "throw"
             THEN [threw |-> TRUE, e |-> st.e, isError |-> st.isError,
                   value |-> NoObservation]
             ELSE TryBody(st.json)
    IN  IF r.threw THEN CatchBlock(r.e, r.isError) ELSE r.value

\* Mutant: a rejected getJson is called once more.
AfterGetJsonRetry(st) == IF st.kind = "throw" THEN 1 ELSE 0

\* Calls of getJson made after the await has settled: neither the rest of
\* the try block nor the catch block makes one.
AfterGetJsonCalls(st) == 0

\* What the try block prints
AfterGetJsonLog(st, debug) ==
    IF st.kind = "throw" \/ TryBody(st.json).threw
    THEN IF debug THEN <<Log("tool-fatal"), Log("tool-error-object")>> ELSE <<>>
    ELSE IF ~st.json.best_flights.present /\ ~st.json.other_flights.present
            /\ Truthy(st.json.error)
         THEN <<Log("tool-warn")>>
         ELSE <<>>

\* searchFlights from its entry to its first return or await.
EnterSearch(a, debug) ==
    LET d == Destructure(a) IN
    IF RequiredMissing(d)
    THEN [toolPc |-> "done",
          observation |-> TextObservation(InvalidArgsMsg),
          calls |-> 0,
          params |-> NoParams,
          log |-> IF debug THEN <<Log("tool-args"), Log("tool-missing")>> ELSE <<>>]
    ELSE [toolPc |-> "awaiting",
          observation |-> NoObservation,
          calls |-> 1,
          params |-> MakeParams(d),
          log |-> IF debug THEN <<Log("tool-args"), Log("tool-processing")>> ELSE <<>>]

(***************************************************************************)
(* searchFlights: state machine.                                           *)
(***************************************************************************)
ToolIdle ==
    /\ toolPc = "idle"
    /\ args = NoArgs
    /\ DEBUG = FALSE
    /\ remoteCalls = 0
    /\ params = NoParams
    /\ remote = NotCalled
    /\ observation = NoObservation
    /\ toolLog = <<>>

ChatIdle ==
    /\ variant = "app"
    /\ pc = "idle"
    /\ history = <<>>
    /\ query = <<>>
    /\ questionPending = FALSE
    /\ inflight = 0
    /\ iter = 0
    /\ scratch = <<>>
    /\ agentInput = [input |-> <<>>, messages |-> <<>>]
    /\ settled = NotSettled
    /\ console = <<>>
    /\ outcome = "none"
    /\ turns = 0
    /\ histBefore = <<>>
    /\ called = FALSE
    /\ exhausted = FALSE
    /\ collections = {}
    /\ exists = "unset"
    /\ indexed = FALSE
    /\ answeredSince = 0

PairIdle ==
    /\ appHistory = <<>>
    /\ ragHistory = <<>>
    /\ pairPc = "idle"
    /\ pairQuery = <<>>
    /\ pairOutcome = "none"
    /\ pairTurns = 0

\* The tool runtime calls searchFlights(args).
ToolInit ==
    /\ ChatIdle
    /\ PairIdle
    /\ toolPc = "entered"
    /\ args \in ArgObjects \cup {NoArgs}
    /\ DEBUG \in BOOLEAN
    /\ remoteCalls = 0
    /\ params = NoParams
    /\ remote = NotCalled
    /\ observation = NoObservation
    /\ toolLog = <<>>

\* The function runs to its first return or to `await getJson(params)`.
SearchEnter ==
    /\ toolPc = "entered"
    /\ LET r == EnterSearch(args, DEBUG) IN
       /\ toolPc' = r.toolPc
       /\ observation' = r.observation
       /\ remoteCalls' = remoteCalls + r.calls
       /\ params' = r.params
       /\ toolLog' = toolLog \o r.log
    /\ UNCHANGED <<args, DEBUG, remote>>
    /\ UNCHANGED <<chatVars, pairVars>>

\* getJson settles and the function runs to its return.
GetJsonSettles(st) ==
    /\ toolPc = "awaiting"
    /\ remote' = st
    /\ observation' = AfterGetJson(st)
    /\ toolLog' = toolLog \o AfterGetJsonLog(st, DEBUG)
    /\ toolPc' = "done"
    /\ remoteCalls' = remoteCalls + AfterGetJsonCalls(st)
    /\ UNCHANGED <<args, DEBUG, params>>
    /\ UNCHANGED <<chatVars, pairVars>>

ToolNext ==
    \/ SearchEnter
    \/ \E st \in Settlements : GetJsonSettles(st)

SpecTool == ToolInit /\ [][ToolNext]_vars

(***************************************************************************)
(* main(): the vector store is set up, then the chat interface is started. *)
(***************************************************************************)
\* process.env.COLLECTION_NAME || "learning_langchain"
collectionName == "learning_langchain"
CollectionNames == {collectionName, "other"}

\* collections.collections.some(c => c.name === collectionName)
SomeNamed(cs) == \E c \in cs : c = collectionName

\* Mutant: the existing-collection branch is taken whatever `exists` is.
AfterGetCollectionsNoIndex(cs) ==
    [exists |-> IF SomeNamed(cs) THEN "yes" ELSE "no",
     pc |-> "setup",
     console |-> <<Log("exists")>>]

\* main() once getCollections has resolved: if (!exists) { index } else { load }
AfterGetCollections(cs) ==
    IF ~SomeNamed(cs)
    THEN [exists |-> "no", pc |-> "indexing", console |-> <<Log("not-found")>>]
    ELSE [exists |-> "yes", pc |-> "setup", console |-> <<Log("exists")>>]

\* main().catch(console.error): main stops where the error was thrown.
MainFails ==
    /\ pc' = "crashed"
    /\ console' = Append(console, Log("error"))
    /\ UNCHANGED <<variant, history, query, questionPending, inflight, iter,
                   scratch, agentInput, settled, outcome, turns, histBefore,
                   called, exhausted, answeredSince, collections, exists,
                   indexed>>
    /\ UNCHANGED <<toolVars, pairVars>>

\* await qdrantClient.getCollections() settles.
GetCollectionsSettles(ok) ==
    /\ pc = "main"
    /\ IF ok
       THEN LET r == AfterGetCollections(collections) IN
            /\ exists' = r.exists
            /\ pc' = r.pc
            /\ console' = console \o r.console
            /\ UNCHANGED <<variant, history, query, questionPending, inflight,
                           iter, scratch, agentInput, settled, outcome, turns,
                           histBefore, called, exhausted, answeredSince,
                           collections, indexed>>
            /\ UNCHANGED <<toolVars, pairVars>>
       ELSE MainFails

\* loader.load(), splitDocuments(docs) and fromDocuments(...) settle.
IndexingSettles(ok) ==
    /\ pc = "indexing"
    /\ IF ok
       THEN /\ collections' = collections \cup {collectionName}
            /\ indexed' = TRUE
            /\ pc' = "setup"
            /\ console' = Append(console, Log("indexing-complete"))
            /\ UNCHANGED <<variant, history, query, questionPending, inflight,
                           iter, scratch, agentInput, settled, outcome, turns,
                           histBefore, called, exhausted, answeredSince,
                           exists>>
            /\ UNCHANGED <<toolVars, pairVars>>
       ELSE MainFails

\* The tools and the agent are built; startChatInterface(agent) sets
\* history = [] and calls ask().
AgentSetupSettles(ok) ==
    /\ pc = "setup"
    /\ IF ok
       THEN /\ history' = <<>>
            /\ questionPending' = TRUE
            /\ pc' = "ask"
            /\ console' = Append(console, Log("agent-ready"))
            /\ UNCHANGED <<variant, query, inflight, iter, scratch, agentInput,
                           settled, outcome, turns, histBefore, called,
                           exhausted, answeredSince, collections, exists,
                           indexed>>
            /\ UNCHANGED <<toolVars, pairVars>>
       ELSE MainFails

\* The count of turns answered since the last fatal failure, after a turn
\* that ended with `o`; a turn that ran out of cycles is not an answered
\* turn, whatever the callback did with its result.
AnsweredAfter(n, o, ex) ==
    CASE o = "fatal" -> 0
      [] o = "answered" /\ ~ex -> n + 1
      [] OTHER -> n

(***************************************************************************)
(* Chat loop: state machine.                                               *)
(***************************************************************************)
Init ==
    /\ variant \in {"app", "rag"}
    /\ pc = "main"
    /\ collections \in SUBSET CollectionNames
    /\ exists = "unset"
    /\ indexed = FALSE
    /\ answeredSince = 0
    /\ history = <<>>
    /\ query = <<>>
    /\ questionPending = FALSE
    /\ inflight = 0
    /\ iter = 0
    /\ scratch = <<>>
    /\ agentInput = [input |-> <<>>, messages |-> <<>>]
    /\ settled = NotSettled
    /\ console = <<>>
    /\ outcome = "none"
    /\ turns = 0
    /\ histBefore = <<>>
    /\ called = FALSE
    /\ exhausted = FALSE
    /\ ToolIdle
    /\ PairIdle

\* The user enters a line and the pending question's callback runs.
OnLine(q) ==
    /\ questionPending
    /\ IsExit(q) \/ turns < MaxTurns
    /\ query' = q
    /\ histBefore' = history
    /\ settled' = NotSettled
    /\ exhausted' = FALSE
    /\ iter' = 0
    /\ scratch' = <<>>
    /\ IF IsExit(q)
       THEN /\ console' = <<Log("goodbye")>>
            /\ questionPending' = FALSE  \* rl.close(); return
            /\ pc' = "closed"
            /\ outcome' = "exit"
            /\ called' = FALSE
            /\ UNCHANGED <<history, agentInput, inflight, turns>>
       ELSE LET s == StartTurn(variant, history, q) IN
            /\ history' = s.history
            /\ agentInput' = s.agentInput
            /\ questionPending' = s.questionPending
            /\ console' = s.console
            /\ inflight' = inflight + 1
            /\ called' = TRUE
            /\ turns' = turns + 1
            /\ pc' = "invoking"
            /\ UNCHANGED outcome
    /\ UNCHANGED <<variant, answeredSince>>
    /\ UNCHANGED mainVars
    /\ UNCHANGED <<toolVars, pairVars>>

\* The model asks for a tool; the runtime runs it and records the step.
AgentToolCycle(name) ==
    /\ pc = "invoking"
    /\ iter < MaxIterations
    /\ iter' = iter + 1
    /\ scratch' = Append(scratch, name)
    /\ UNCHANGED <<variant, pc, history, query, questionPending, inflight,
                   agentInput, settled, console, outcome, turns, histBefore,
                   called, exhausted, answeredSince>>
    /\ UNCHANGED mainVars
    /\ UNCHANGED <<toolVars, pairVars>>

Settle(st) ==
    /\ settled' = st
    /\ inflight' = inflight - 1
    /\ pc' = "settled"
    /\ UNCHANGED <<variant, history, query, questionPending, iter, scratch,
                   agentInput, console, outcome, turns, histBefore, called,
                   answeredSince>>
    /\ UNCHANGED mainVars
    /\ UNCHANGED <<toolVars, pairVars>>

\* The model gives a final answer.
AgentFinal(a) ==
    /\ pc = "invoking"
    /\ iter < MaxIterations
    /\ Settle(Returned(FinalResult(variant, agentInput, scratch, a)))
    /\ UNCHANGED exhausted

\* invoke resolves without a usable final answer.
AgentUnusable(r) ==
    /\ pc = "invoking"
    /\ iter < MaxIterations
    /\ r \in UnusableResults(variant, agentInput, scratch)
    /\ Settle(Returned(r))
    /\ UNCHANGED exhausted

\* The call to the model fails (network, auth, timeout): invoke rejects.
AgentThrow ==
    /\ pc = "invoking"
    /\ iter < MaxIterations
    /\ Settle(Thrown)
    /\ UNCHANGED exhausted

\* The cycle bound is reached without a final answer.
AgentExhausted ==
    /\ pc = "invoking"
    /\ iter = MaxIterations
    /\ Settle(ExhaustedSettlement(variant))
    /\ exhausted' = TRUE

\* Mutant: the catch block returns instead of falling through to ask().
OnSettledNoAsk ==
    /\ pc = "settled"
    /\ LET r == Resume(variant, history, query, console, settled) IN
       /\ history' = r.history
       /\ console' = r.console
       /\ outcome' = r.outcome
       /\ answeredSince' = AnsweredAfter(answeredSince, r.outcome, exhausted)
       /\ questionPending' = (r.outcome # "fatal")
       /\ pc' = IF r.outcome = "fatal" THEN "stopped" ELSE "ask"
    /\ UNCHANGED <<variant, query, inflight, iter, scratch, agentInput,
                   settled, turns, histBefore, called, exhausted>>
    /\ UNCHANGED mainVars
    /\ UNCHANGED <<toolVars, pairVars>>

\* The callback continues after the await, then calls ask().
OnSettled ==
    /\ pc = "settled"
    /\ LET r == Resume(variant, history, query, console, settled) IN
       /\ history' = r.history
       /\ console' = r.console
       /\ outcome' = r.outcome
       /\ answeredSince' = AnsweredAfter(answeredSince, r.outcome, exhausted)
    /\ questionPending' = TRUE
    /\ pc' = "ask"
    /\ UNCHANGED <<variant, query, inflight, iter, scratch, agentInput,
                   settled, turns, histBefore, called, exhausted>>
    /\ UNCHANGED mainVars
    /\ UNCHANGED <<toolVars, pairVars>>

Next ==
    \/ \E ok \in BOOLEAN : GetCollectionsSettles(ok)
    \/ \E ok \in BOOLEAN : IndexingSettles(ok)
    \/ \E ok \in BOOLEAN : AgentSetupSettles(ok)
    \/ \E q \in Lines : OnLine(q)
    \/ \E name \in ToolNames : AgentToolCycle(name)
    \/ \E a \in Answers : AgentFinal(a)
    \/ \E r \in UnusableResults(variant, agentInput, scratch) : AgentUnusable(r)
    \/ AgentThrow
    \/ AgentExhausted
    \/ OnSettled

Spec == Init /\ [][Next]_vars

\* Every awaited promise of the chat loop settles: the agent invocation
\* returns or throws, and the callback then runs to its end.
AgentStep ==
    \/ \E name \in ToolNames : AgentToolCycle(name)
    \/ \E a \in Answers : AgentFinal(a)
    \/ \E r \in UnusableResults(variant, agentInput, scratch) : AgentUnusable(r)
    \/ AgentThrow
    \/ AgentExhausted

SpecLive ==
    /\ Init
    /\ [][Next]_vars
    /\ WF_vars(AgentStep)
    /\ WF_vars(OnSettled)

(***************************************************************************)
(* The two chat loops side by side: app.js and rag.ts are handed the same  *)
(* lines, and their invocations settle with the same outcome.              *)
(***************************************************************************)
\* The tool steps an invocation may have made before it settles.
StepSeqs == UNION {[1..k -> ToolNames] : k \in 0..(MaxIterations - 1)}

\* Every way invoke(input) of variant v may settle.
InvocationSettlements(v, input) ==
    {Returned(FinalResult(v, input, steps, a)) :
        steps \in StepSeqs, a \in Answers} \cup
    UNION {{Returned(r) : r \in UnusableResults(v, input, steps)} :
        steps \in StepSeqs} \cup
    {Thrown, ExhaustedSettlement(v)}

\* startChatInterface(agent) of both programs: history = [], ask().
PairInit ==
    /\ ChatIdle
    /\ ToolIdle
    /\ appHistory = <<>>
    /\ ragHistory = <<>>
    /\ pairPc = "ask"
    /\ pairQuery = <<>>
    /\ pairOutcome = "none"
    /\ pairTurns = 0

\* Both callbacks are handed the line q and run up to the await.
PairOnLine(q) ==
    /\ pairPc = "ask"
    /\ IsExit(q) \/ pairTurns < MaxTurns
    /\ pairQuery' = q
    /\ IF IsExit(q)
       THEN /\ pairPc' = "closed"
            /\ pairOutcome' = "exit"
            /\ UNCHANGED <<appHistory, ragHistory, pairTurns>>
       ELSE /\ appHistory' = StartTurn("app", appHistory, q).history
            /\ ragHistory' = StartTurn("rag", ragHistory, q).history
            /\ pairPc' = "invoking"
            /\ pairTurns' = pairTurns + 1
            /\ UNCHANGED pairOutcome
    /\ UNCHANGED <<chatVars, toolVars>>

\* Both invocations settle, each in one of its own ways, and both callbacks
\* run to ask(); the two turns end with the same outcome.
PairSettles ==
    /\ pairPc = "invoking"
    /\ \E sa \in InvocationSettlements("app",
                    [input |-> pairQuery, messages |-> appHistory]),
          sr \in InvocationSettlements("rag",
                    [input |-> <<>>, messages |-> ragHistory]) :
          LET a == Resume("app", appHistory, pairQuery, <<>>, sa)
              r == Resume("rag", ragHistory, pairQuery, <<>>, sr)
          IN  /\ a.outcome = r.outcome
              /\ appHistory' = a.history
              /\ ragHistory' = r.history
              /\ pairOutcome' = a.outcome
    /\ pairPc' = "ask"
    /\ UNCHANGED <<pairQuery, pairTurns>>
    /\ UNCHANGED <<chatVars, toolVars>>

PairNext ==
    \/ \E q \in Lines : PairOnLine(q)
    \/ PairSettles

SpecPair == PairInit /\ [][PairNext]_vars

(***************************************************************************)
(* Properties of the chat loop (checked under Spec).                       *)
(***************************************************************************)
\* invoke returned, and what it returned holds no usable final answer.
NoUsableAnswer ==
    /\ settled.kind = "return"
    /\ IF variant = "rag"
       THEN \/ settled.result.nullish
            \/ ~settled.result.isArray
            \/ Len(settled.result.messages) = 0
            \/ Last(settled.result.messages).role # "ai"
       ELSE settled.result.output.t # "string"

\* C1: a turn whose invocation returns without a usable final answer leaves
\* the history, at the next prompt, identical to the history before the turn.
C1_RollbackCorrectness ==
    (pc = "ask" /\ NoUsableAnswer) => history = histBefore

C1_Witness ==
    /\ pc = "ask"
    /\ NoUsableAnswer
    /\ variant = "rag"
    /\ Len(histBefore) >= 2
    /\ Len(scratch) >= 1

\* C2: when invoke throws, the history is empty at the next prompt, however
\* many turns were recorded and whether or not the user turn was appended.
C2_FatalClear ==
    (pc = "ask" /\ settled.kind = "throw") => history = <<>>

C2_Witness ==
    /\ pc = "ask"
    /\ settled.kind = "throw"
    /\ ~exhausted
    /\ variant = "rag"
    /\ Len(histBefore) >= 4

AnswerPrinted == \E i \in 1..Len(console) : console[i].tag = "answer"
PrintedAnswer ==
    console[CHOOSE i \in 1..Len(console) : console[i].tag = "answer"].text

\* Request/result pairs: a request turn, then its result turn, repeated.
IsRequestResultPairs(mid) ==
    /\ Len(mid) % 2 = 0
    /\ \A j \in 1..(Len(mid) \div 2) :
          mid[2 * j - 1].role = "ai" /\ mid[2 * j].role = "tool"

\* C3: after an answered turn the history is the history before the turn,
\* then one user turn with this turn's utterance, then request/result pairs
\* (zero or more), then one assistant turn with the answer that was printed.
C3_HistoryPairing ==
    (pc = "ask" /\ AnswerPrinted) =>
        LET n == Len(histBefore)
            m == Len(history)
        IN  /\ m >= n + 2
            /\ SubSeq(history, 1, n) = histBefore
            /\ history[n + 1] = HumanMessage(query)
            /\ history[m] = AIMessage(PrintedAnswer)
            /\ IsRequestResultPairs(SubSeq(history, n + 2, m - 1))

C3_Witness ==
    /\ pc = "ask"
    /\ AnswerPrinted
    /\ Len(histBefore) >= 2
    /\ Len(scratch) >= 1

FailureNoticePrinted ==
    \E i \in 1..Len(console) : console[i].tag \in {"invalid", "fatal"}

\* C4: the cycles of one turn never exceed the maximum, and a turn that
\* runs out of cycles ends failed: the history is what it was before the
\* turn (not cleared, not extended) and a failure notice was printed.
C4_IterationExhaustion ==
    /\ iter <= MaxIterations
    /\ (pc = "ask" /\ exhausted) =>
          /\ history = histBefore
          /\ FailureNoticePrinted
          /\ ~AnswerPrinted

\* C9: a prompt is outstanding only when no invocation is in flight and the
\* previous turn, if any, has ended with its history update done; never are
\* two invocations in flight.
C9_SequentialTurns ==
    /\ inflight <= 1
    /\ questionPending =>
          /\ inflight = 0
          /\ pc = "ask"
          /\ turns > 0 => outcome \in {"answered", "failed", "fatal"}

C9_Witness ==
    /\ questionPending
    /\ turns >= 2
    /\ outcome = "failed"
    /\ Len(history) >= 2

\* C10: once "exit" in any letter case has been entered, the front end is
\* closed: the history is untouched, invoke was not called, no prompt is
\* outstanding and nothing further happens.
C10_ExitSentinel ==
    (query \in ExitLines /\ pc # "ask") =>
        /\ pc = "closed"
        /\ history = histBefore
        /\ ~called
        /\ ~questionPending
        /\ inflight = 0
        /\ ~ENABLED Next

C10_Witness ==
    /\ pc = "closed"
    /\ query = <<"E", "X", "I", "T">>
    /\ Len(history) >= 2

\* The turns the history gained since the current line arrived.
TurnTail == SubSeq(history, Len(histBefore) + 1, Len(history))

\* C11: every capability invocation executed during an answered turn has
\* left its request turn and its result turn in the history, paired and in
\* request order, between the user turn and the assistant turn.
C11_CapabilityTurnsRecorded ==
    (pc = "ask" /\ AnswerPrinted) =>
        /\ Len(TurnTail) = 2 + 2 * Len(scratch)
        /\ SubSeq(TurnTail, 2, Len(TurnTail) - 1) = ScratchMessages(scratch)

\* C12 as claimed: while the agent is invoked the history ends with the
\* current user turn and is what the reasoning call was handed.
C12_UserTurnFirst_Original ==
    pc = "invoking" =>
        /\ Len(history) = Len(histBefore) + 1
        /\ Last(history) = HumanMessage(query)
        /\ agentInput.messages = history

\* C12 as amended: the messages the reasoning call starts from are every
\* turn recorded so far followed by the current user turn; rag.ts has
\* appended that turn to the history before the call, app.js hands it over
\* as `input` and leaves the history as it was.
C12_UserTurnFirst ==
    pc = "invoking" =>
        /\ PromptMessages(variant, agentInput) = histBefore \o <<HumanMessage(query)>>
        /\ variant = "rag" => history = histBefore \o <<HumanMessage(query)>>
        /\ variant = "app" => history = histBefore

C12_Witness ==
    /\ pc = "invoking"
    /\ variant = "app"
    /\ Len(histBefore) >= 2
    /\ iter >= 1

IsPrefix(a, b) == Len(a) <= Len(b) /\ SubSeq(b, 1, Len(a)) = a

\* C13: every step leaves the history alone, appends to it, removes turns
\* from its end, or clears it; when turns are removed and the history is not
\* cleared, the turns recorded before the current line all remain.
C13_AppendOnlyLog ==
    [][/\ \/ IsPrefix(history, history')
          \/ IsPrefix(history', history)
          \/ history' = <<>>
       /\ (Len(history') < Len(history) /\ history' # <<>>) =>
             IsPrefix(histBefore, history')]_vars

C13_Witness ==
    /\ pc = "ask"
    /\ variant = "rag"
    /\ NoUsableAnswer
    /\ Len(history) >= 4

\* The user-visible outcomes this turn has printed.
OutcomesPrinted ==
    {i \in 1..Len(console) : console[i].tag \in {"answer", "invalid", "fatal"}}

Started == pc \in {"ask", "invoking", "settled", "closed"}

\* C18: a prompt is issued, and a turn processed, only after the
\* collection-exists check has completed and, when the collection was absent,
\* after indexing has completed; indexing happens exactly when the check found
\* no collection; a startup that failed never prompts and processes no turn.
C18_StartupOrdering ==
    /\ (Started \/ questionPending \/ turns > 0) =>
          /\ exists # "unset"
          /\ indexed <=> (exists = "no")
          /\ collectionName \in collections
    /\ indexed => exists = "no"
    /\ pc = "indexing" => (exists = "no" /\ collectionName \notin collections)
    /\ exists = "yes" => (collectionName \in collections /\ ~indexed)
    /\ pc = "crashed" =>
          /\ ~questionPending
          /\ turns = 0
          /\ history = <<>>
          /\ ~called
          /\ ~ENABLED Next

C18_Witness ==
    /\ pc = "ask"
    /\ questionPending
    /\ indexed
    /\ exists = "no"
    /\ outcome = "answered"

\* Roles alternate, starting with the user.
IsUserAssistantPairs(h) ==
    /\ Len(h) % 2 = 0
    /\ \A i \in 1..Len(h) :
          h[i].role = (IF i % 2 = 1 THEN "human" ELSE "ai")

\* C19: whenever a prompt is outstanding the history is a sequence of
\* (user, assistant) pairs whose length is twice the number of turns answered
\* since the last fatal failure.
C19_HistoryIsPairs ==
    (pc = "ask" /\ questionPending) =>
        /\ IsUserAssistantPairs(history)
        /\ Len(history) = 2 * answeredSince

\* C20: every turn that is not the exit word is followed by a new prompt; the
\* prompt loop stops only at the exit word; the turn after a fatal failure
\* starts from an empty history.
C20_SessionSurvives ==
    /\ (pc \in {"invoking", "settled"}) ~> (pc = "ask" /\ questionPending)
    /\ []((Started /\ ~questionPending /\ pc \notin {"invoking", "settled"})
            => (pc = "closed" /\ outcome = "exit"))
    /\ []((pc \in {"invoking", "settled"} /\ outcome = "fatal")
            => histBefore = <<>>)

C20_Witness ==
    /\ pc = "ask"
    /\ questionPending
    /\ outcome = "fatal"
    /\ turns >= 2
    /\ Len(histBefore) >= 2
    /\ history = <<>>

(***************************************************************************)
(* Properties of searchFlights (checked under SpecTool).                   *)
(***************************************************************************)
\* m occurs in text as a run of consecutive pieces
Contains(text, m) ==
    \E i \in 1..(Len(text) - Len(m) + 1) : SubSeq(text, i, i + Len(m) - 1) = m

\* C5: searchFlights always resolves to a non-empty string, and when getJson
\* failed that string carries the error's message (for a thrown value that
\* is no Error, its JSON text; for an application-level error, its text).
C5_NoEscape ==
    toolPc = "done" =>
        /\ observation.kind \in {"text", "json"}
        /\ observation.kind = "text" =>
              /\ observation.text # <<>>
              /\ \A i \in 1..Len(observation.text) : observation.text[i] # ""
        /\ (remote.kind = "throw" /\ remote.isError) =>
              /\ observation.kind = "text"
              /\ Contains(observation.text, remote.e.s)
        /\ (remote.kind = "throw" /\ ~remote.isError /\ remote.e.t = "string") =>
              /\ observation.kind = "text"
              /\ Contains(observation.text, remote.e.s)
        /\ (/\ remote.kind = "json"
            /\ ~remote.json.nullish
            /\ ~remote.json.best_flights.present
            /\ ~remote.json.other_flights.present
            /\ remote.json.error.t = "string") =>
              /\ observation.kind = "text"
              /\ Contains(observation.text, remote.json.error.s)

C5_Witness ==
    /\ toolPc = "done"
    /\ remote.kind = "throw"
    /\ ~remote.isError
    /\ remote.e.t = "string"
    /\ observation.kind = "text"

RequiredFields ==
    {f \in DOMAIN FlightSearchSchema : ~FlightSearchSchema[f].optional}

\* Present and of the schema's type: a string, and not the empty one.
WellFormed(f, v) == v.t = FlightSearchSchema[f].type /\ v.s # <<>>

AllRequiredWellFormed(a) ==
    ~a.nullish /\ \A f \in RequiredFields : WellFormed(f, a[f])

\* C6: getJson is called (once) exactly when the three required arguments
\* are present and well-formed, whatever the return date; otherwise the
\* function has returned the one invalid-arguments text, whatever else
\* holds, and getJson was not called.
C6_SchemaValidation ==
    toolPc \in {"awaiting", "done"} =>
        /\ remoteCalls \in {0, 1}
        /\ remoteCalls = 1 <=> AllRequiredWellFormed(args)
        /\ ~AllRequiredWellFormed(args) =>
              /\ toolPc = "done"
              /\ observation = [kind |-> "text", text |-> InvalidArgsMsg,
                                entries |-> <<>>]
              /\ remote.kind = "none"

C6_Witness ==
    /\ toolPc = "done"
    /\ ~args.nullish
    /\ args.departure_date = Str(<<>>)
    /\ args.departure_city_or_airport.t = "string"
    /\ args.return_date.t = "string"
    /\ DEBUG
    /\ remoteCalls = 0

\* The offers of a response, best_flights first.
UpstreamOffers(json) ==
    (IF json.best_flights.present THEN json.best_flights.list ELSE <<>>)
    \o (IF json.other_flights.present THEN json.other_flights.list ELSE <<>>)

\* All offers of the response sit in one list (so that the count and the
\* order of "the upstream list" are not in question) and are well-formed.
OffersInOneList(json) ==
    /\ ~json.nullish
    /\ Len(json.best_flights.list) = 0 \/ Len(json.other_flights.list) = 0
    /\ \A i \in 1..Len(UpstreamOffers(json)) : ~ProjectThrows(UpstreamOffers(json)[i])

\* C7: for a response carrying n >= 1 offers, the observation is the list of
\* the projections of the first min(n, 5) offers, in upstream order.
C7_PrunedSizeBound ==
    (/\ toolPc = "done"
     /\ remote.kind = "json"
     /\ OffersInOneList(remote.json)
     /\ Len(UpstreamOffers(remote.json)) >= 1) =>
        LET up == UpstreamOffers(remote.json)
            k == IF Len(up) < 5 THEN Len(up) ELSE 5
        IN  /\ observation.kind = "json"
            /\ Len(observation.entries) = k
            /\ \A i \in 1..k :
                  observation.entries[i].price = JsonValue(up[i].price)

\* C8: for a response carrying no offers (a list may be present and empty)
\* and no error, the observation is the no-results text; a resolved call
\* never yields an empty string or an empty result list.
C8_ZeroOffers ==
    toolPc = "done" =>
        /\ (/\ remote.kind = "json"
            /\ ~remote.json.nullish
            /\ Len(UpstreamOffers(remote.json)) = 0
            /\ ~Truthy(remote.json.error)) =>
              observation = [kind |-> "text", text |-> NoFlightsMsg,
                             entries |-> <<>>]
        /\ ~(observation.kind = "json" /\ observation.entries = <<>>)
        /\ ~(observation.kind = "text" /\ observation.text = <<>>)

\* The required fields a call leaves missing or malformed.
MissingFields(a) ==
    {f \in RequiredFields : ~WellFormed(f, Destructure(a)[f])}

\* C15: the text returned for rejected arguments identifies the missing
\* fields: a call missing a different set of fields gets a different text.
C15_MessageNamesFields ==
    (toolPc = "done" /\ remoteCalls = 0) =>
        \A a2 \in ArgObjects \cup {NoArgs} :
            (MissingFields(a2) # {} /\ MissingFields(a2) # MissingFields(args)) =>
                EnterSearch(a2, DEBUG).observation # observation

\* The list the entries were projected from.
UsedList(json) ==
    IF json.best_flights.present
    THEN json.best_flights.list
    ELSE json.other_flights.list

\* The same offer with the travel class of its first leg set or unset.
ToggleClass(o) ==
    [o EXCEPT !.flights.legs[1].travel_class =
                 IF Truthy(@) THEN Undefined ELSE Str(<<"Economy">>)]

\* C16: every projected entry of an offer that carries a price has all seven
\* fields, and its stop count is the one the same offer would get with the
\* travel class of its first leg changed.
C16_StopsIndependentOfClass ==
    (toolPc = "done" /\ remote.kind = "json" /\ observation.kind = "json") =>
        \A i \in 1..Len(observation.entries) :
            LET o == UsedList(remote.json)[i] IN
            o.price.t = "number" =>
                /\ \A k \in EntryKeys : observation.entries[i][k].t # "omitted"
                /\ JsonValue(Project(ToggleClass(o)).stops)
                      = observation.entries[i].stops

\* C17: getJson is called at most once per invocation: not at all while the
\* arguments are unchecked or when they are rejected, and exactly once when
\* the call has settled, however it settled.
C17_NoAutoRetry ==
    /\ remoteCalls <= 1
    /\ toolPc = "entered" => remoteCalls = 0
    /\ (toolPc = "done" /\ remote.kind = "none") => remoteCalls = 0
    /\ (toolPc = "done" /\ remote.kind # "none") => remoteCalls = 1
    /\ toolPc = "awaiting" => remoteCalls = 1

C17_Witness ==
    /\ toolPc = "done"
    /\ remote.kind = "throw"
    /\ remote.isError
    /\ remoteCalls = 1

(***************************************************************************)
(* The two chat loops compared (checked under SpecPair).                   *)
(***************************************************************************)
\* The role sequence of a history.
Roles(h) == [i \in 1..Len(h) |-> h[i].role]

\* C21: handed the same lines, with every turn ending the same way in both,
\* app.js and rag.ts have histories of equal length and equal role sequence
\* whenever they await input.
C21_HistoryEquivalent ==
    pairPc = "ask" =>
        /\ Len(appHistory) = Len(ragHistory)
        /\ Roles(appHistory) = Roles(ragHistory)

C21_Witness ==
    /\ pairPc = "ask"
    /\ pairOutcome = "failed"
    /\ pairTurns >= 3
    /\ Len(appHistory) = 2
    /\ Len(ragHistory) = 2

====
